---- MODULE Spec2Model ----
(***************************************************************************)
(* Model of the lockup-incentives contract (src/src/contract.rs).          *)
(*                                                                         *)
(* The state is the contract's persisted store: Config, RewardPool, one    *)
(* UserInfo per account and the viewing-key store, together with the       *)
(* chain's block height.  Two counters stand for the reward token's       *)
(* ledger outside the contract: the reward amount the contract has taken   *)
(* in by AddToRewardPool and the reward amount its responses have told     *)
(* the token to transfer out; only SpecLedger moves them.                  *)
(* Every handler is a pure operator from (store, env, message) to a        *)
(* response; an action commits the response's store when the handler       *)
(* returned Ok and leaves the store alone when it returned Err or          *)
(* panicked (the host discards a failed transaction's writes).             *)
(*                                                                         *)
(* Arithmetic: u64/u128 subtraction below zero and division by zero panic  *)
(* (Rust's checked arithmetic, as in the test build and in a contract      *)
(* built with overflow-checks); a panic aborts the transaction.  The two   *)
(* fixed-point scales are 10^12 in the source and are scaled down here so  *)
(* that truncation happens on small numbers.                               *)
(***************************************************************************)
EXTENDS Integers, Sequences, FiniteSets, TLC

\* ------------------------------------------------------------------ bounds
MaxHeight == 4
MaxLocked == 2
MaxPending == 2
MaxAcc == 4
MaxReceived == 3

\* ------------------------------------------------------- program constants
INC_TOKEN_SCALE == 2
REWARD_SCALE == 2

\* InitMsg: deadline and pool_claim_block (the test initialises both alike);
\* one block is left after the deadline
InitDeadline == MaxHeight - 1
InitClaimHeight == MaxHeight - 1

\* cap of inc_token_supply
MaxSupply == MaxLocked + 1

\* ------------------------------------------------------------------ inputs
Admin == "admin"
Users == {"alice", "bob"}
Senders == {"admin", "alice", "bob", "eth", "scrt"}
\* who sends what: a token contract or a stranger notifies, an account or a
\* stranger redeems, the admin or a stranger administers
Notifiers == {"eth", "scrt"}
Holders == {"alice", "bob"}
Officers == {"admin", "alice"}
NewAdmins == {"alice"}
KeyHolders == {"alice"}

EthToken == [address |-> "eth", contract_hash |-> "2"]
ScrtToken == [address |-> "scrt", contract_hash |-> "1"]
NewIncTokens == {ScrtToken}
NewRewardTokens == {ScrtToken}

LockAmounts == {2, 5}
RewardAmounts == {1, 2}
\* Option<Uint128>: <<>> is None, <<v>> is Some(v)
RedeemAmounts == {<<>>, <<1>>, <<2>>, <<5>>}
Recipients == {<<>>, <<"bob">>}
Balances == {7}
Keys == {<<"k1">>}
Entropies == {"e1"}
NewDeadlines == {MaxHeight}

VARIABLES config, reward_pool, users, viewing_keys, height, received, paid

vars == <<config, reward_pool, users, viewing_keys, height, received, paid>>

\* The persisted store as one value
Store == [config |-> config, pool |-> reward_pool, users |-> users, vk |-> viewing_keys]

\* ----------------------------------------------------------------- helpers
NoUser == [locked |-> 0, debt |-> 0]

Ok(st, messages) == [status |-> "ok", st |-> st, messages |-> messages]

Err(st, e) == [status |-> e, st |-> st, messages |-> <<>>]

transfer_msg(recipient, amount, token) ==
    [to |-> recipient, amount |-> amount, token |-> token.address, hash |-> token.contract_hash]

\* -------------------------------------------------------- update_rewards
\* (mutant) the window is counted one block too long
rewards_to_vest_long(pool, h, cfg) ==
    ((h - pool.last_reward_block) * pool.pending_rewards)
        \div (cfg.deadline - pool.last_reward_block + 1)

\* blocks_to_vest * pending_rewards / blocks_to_go (blocks_to_go is not 0)
rewards_to_vest(pool, h, cfg) ==
    ((h - pool.last_reward_block) * pool.pending_rewards)
        \div (cfg.deadline - pool.last_reward_block)

\* (mutant) the accumulator is overwritten instead of added to
vested_pool_overwrite(pool, rewards, h) ==
    [pool EXCEPT !.acc_reward_per_share = (rewards * REWARD_SCALE) \div pool.inc_token_supply,
                 !.pending_rewards = @ - rewards,
                 !.last_reward_block = h]

\* (mutant) last_reward_block is left where it was
vested_pool_same_block(pool, rewards, h) ==
    [pool EXCEPT !.acc_reward_per_share =
                     @ + (rewards * REWARD_SCALE) \div pool.inc_token_supply,
                 !.pending_rewards = @ - rewards]

\* the pool after `rewards` have vested at height h
vested_pool(pool, rewards, h) ==
    [pool EXCEPT !.acc_reward_per_share =
                     @ + (rewards * REWARD_SCALE) \div pool.inc_token_supply,
                 !.pending_rewards = @ - rewards,
                 !.last_reward_block = h]

\* (mutant) rewards nobody can earn are dropped
idle_pool_dropped(pool, h) == [pool EXCEPT !.last_reward_block = h, !.pending_rewards = 0]

\* (mutant) the accumulator moves although nothing can vest
idle_pool_accrued(pool, h) ==
    [pool EXCEPT !.last_reward_block = h, !.acc_reward_per_share = @ + 1]

\* the pool when time passes and nothing accrues
idle_pool(pool, h) == [pool EXCEPT !.last_reward_block = h]

\* panic: the division by blocks_to_go = 0, or pending_rewards -= rewards
\* going below zero
update_rewards(pool, h, cfg) ==
    IF h <= pool.last_reward_block \/ pool.last_reward_block > cfg.deadline
    THEN [panic |-> FALSE, pool |-> pool]
    ELSE IF pool.inc_token_supply = 0 \/ pool.pending_rewards = 0
    THEN [panic |-> FALSE, pool |-> idle_pool(pool, h)]
    ELSE IF cfg.deadline - pool.last_reward_block = 0
    THEN [panic |-> TRUE, pool |-> pool]
    ELSE IF rewards_to_vest(pool, h, cfg) > pool.pending_rewards
    THEN [panic |-> TRUE, pool |-> pool]
    ELSE [panic |-> FALSE, pool |-> vested_pool(pool, rewards_to_vest(pool, h, cfg), h)]

\* user.locked * acc_reward_per_share / REWARD_SCALE
share_of(locked, acc) == (locked * acc) \div REWARD_SCALE

\* ------------------------------------------------------------ lock_tokens
\* (mutant) the locked amount does not enter the supply
lock_supply_kept(pool, amount) == pool

lock_supply(pool, amount) == [pool EXCEPT !.inc_token_supply = @ + amount]

\* (mutant) the debt is not recomputed for the new balance
lock_user_old_debt(user, amount, acc) ==
    [locked |-> user.locked + amount, debt |-> user.debt]

lock_user(user, amount, acc) ==
    [locked |-> user.locked + amount, debt |-> share_of(user.locked + amount, acc)]

lock_tokens(st, env, from, raw) ==
    IF env.sender # st.config.inc_token.address
    THEN Err(st, "unsupported_token")
    ELSE LET amount == raw \div INC_TOKEN_SCALE
             up == update_rewards(st.pool, env.height, st.config)
             user == st.users[from]
             acc == up.pool.acc_reward_per_share
         IN  IF up.panic THEN Err(st, "panic")
             ELSE IF user.locked > 0 /\ share_of(user.locked, acc) < user.debt
             THEN Err(st, "panic")
             ELSE LET pending == share_of(user.locked, acc) - user.debt
                      messages == IF user.locked > 0 /\ pending > 0
                                  THEN <<transfer_msg(from, pending, st.config.reward_token)>>
                                  ELSE <<>>
                  IN  Ok([st EXCEPT !.users[from] = lock_user(user, amount, acc),
                                    !.pool = lock_supply(up.pool, amount)],
                         messages)

\* ------------------------------------------------------------ add_to_pool
\* (mutant) the amount is added before the pool is advanced
add_to_pool_unsettled(st, env, amount) ==
    IF env.sender # st.config.reward_token.address
    THEN Err(st, "unsupported_token")
    ELSE LET up == update_rewards([st.pool EXCEPT !.pending_rewards = @ + amount],
                                  env.height, st.config)
         IN  IF up.panic THEN Err(st, "panic")
             ELSE Ok([st EXCEPT !.pool = up.pool], <<>>)

add_to_pool(st, env, amount) ==
    IF env.sender # st.config.reward_token.address
    THEN Err(st, "unsupported_token")
    ELSE LET up == update_rewards(st.pool, env.height, st.config)
         IN  IF up.panic THEN Err(st, "panic")
             ELSE Ok([st EXCEPT !.pool = [up.pool EXCEPT !.pending_rewards = @ + amount]],
                     <<>>)

\* ---------------------------------------------------------------- receive
\* (mutant) a nested Receive is unwrapped and locked
receive_unwrapped(st, env, from, amount, inner) ==
    CASE inner.type \in {"LockTokens", "Receive"} -> lock_tokens(st, env, from, amount)
      [] inner.type = "AddToRewardPool" -> add_to_pool(st, env, amount)
      [] OTHER -> Err(st, "illegal_receive")

receive(st, env, from, amount, inner) ==
    IF inner.type = "Receive"
    THEN Err(st, "recursive_receive")
    ELSE CASE inner.type = "LockTokens" -> lock_tokens(st, env, from, amount)
           [] inner.type = "AddToRewardPool" -> add_to_pool(st, env, amount)
           [] OTHER -> Err(st, "illegal_receive")

\* ----------------------------------------------------------------- redeem
\* (mutant) the amount is scaled down twice
redeem_amount_twice(user, amount) ==
    (IF amount = <<>> THEN user.locked * INC_TOKEN_SCALE ELSE amount[1] \div INC_TOKEN_SCALE)
        \div INC_TOKEN_SCALE

redeem_amount(user, amount) ==
    (IF amount = <<>> THEN user.locked * INC_TOKEN_SCALE ELSE amount[1]) \div INC_TOKEN_SCALE

\* (mutant) the redeemed amount stays in the supply
redeem_supply_kept(pool, amount) == pool

redeem_supply(pool, amount) == [pool EXCEPT !.inc_token_supply = @ - amount]

\* (mutant) the debt is taken from the balance before the redemption
redeem_user_stale(user, amount, acc) ==
    [locked |-> user.locked - amount, debt |-> share_of(user.locked, acc)]

\* (mutant) the whole position is closed whatever the amount
redeem_user_emptied(user, amount, acc) == [locked |-> 0, debt |-> 0]

redeem_user(user, amount, acc) ==
    [locked |-> user.locked - amount, debt |-> share_of(user.locked - amount, acc)]

redeem(st, env, amt) ==
    LET user == st.users[env.sender]
        amount == redeem_amount(user, amt)
    IN  IF amount > user.locked
        THEN Err(st, "insufficient_funds")
        ELSE LET up == update_rewards(st.pool, env.height, st.config)
                 acc == up.pool.acc_reward_per_share
             IN  IF up.panic THEN Err(st, "panic")
                 ELSE IF share_of(user.locked, acc) < user.debt
                 THEN Err(st, "panic")
                 ELSE IF up.pool.inc_token_supply < amount
                 THEN Err(st, "panic")
                 ELSE LET pending == share_of(user.locked, acc) - user.debt
                          rewards == IF pending > 0
                                     THEN <<transfer_msg(env.sender, pending,
                                                         st.config.reward_token)>>
                                     ELSE <<>>
                      IN  Ok([st EXCEPT !.users[env.sender] = redeem_user(user, amount, acc),
                                        !.pool = redeem_supply(up.pool, amount)],
                             Append(rewards,
                                    transfer_msg(env.sender, amount * INC_TOKEN_SCALE,
                                                 st.config.inc_token)))

\* ------------------------------------------------------------ viewing keys
\* ViewingKey::new(env, seed, entropy) and ViewingKey::to_hashed
new_viewing_key(env, entropy) == <<"key", env.sender, entropy>>

to_hashed(key) == <<"sha256">> \o key

create_viewing_key(st, env, entropy) ==
    Ok([st EXCEPT !.vk[env.sender] = to_hashed(new_viewing_key(env, entropy))], <<>>)

set_viewing_key(st, env, key) ==
    Ok([st EXCEPT !.vk[env.sender] = to_hashed(key)], <<>>)

\* ------------------------------------------------------------ admin paths
enforce_admin(cfg, env) == cfg.admin = env.sender

\* (mutant) only the code hash of the new token is taken over
update_inc_token_hash(st, env, new_token) ==
    IF ~enforce_admin(st.config, env) THEN Err(st, "not_admin")
    ELSE Ok([st EXCEPT !.config.inc_token.contract_hash = new_token.contract_hash], <<>>)

update_inc_token(st, env, new_token) ==
    IF ~enforce_admin(st.config, env) THEN Err(st, "not_admin")
    ELSE Ok([st EXCEPT !.config.inc_token = new_token], <<>>)

update_reward_token(st, env, new_token) ==
    IF ~enforce_admin(st.config, env) THEN Err(st, "not_admin")
    ELSE Ok([st EXCEPT !.config.reward_token = new_token], <<>>)

\* (mutant) the internal ledger is paid out instead of the observed balance
claim_reward_pool_ledger(st, env, recipient) ==
    IF ~enforce_admin(st.config, env) THEN Err(st, "not_admin")
    ELSE IF env.height < st.config.pool_claim_height THEN Err(st, "claim_too_early")
    ELSE Ok(st, <<transfer_msg(IF recipient = <<>> THEN env.sender ELSE recipient[1],
                               st.pool.pending_rewards, st.config.reward_token)>>)

claim_reward_pool(st, env, recipient) ==
    IF ~enforce_admin(st.config, env) THEN Err(st, "not_admin")
    ELSE IF env.height < st.config.pool_claim_height THEN Err(st, "claim_too_early")
    ELSE Ok(st, <<transfer_msg(IF recipient = <<>> THEN env.sender ELSE recipient[1],
                               env.balance, st.config.reward_token)>>)

stop_contract(st, env) ==
    IF ~enforce_admin(st.config, env) THEN Err(st, "not_admin")
    ELSE Ok([st EXCEPT !.config.is_stopped = TRUE], <<>>)

\* (mutant) the resumed contract stays stopped
resume_contract_kept(st, env) ==
    IF ~enforce_admin(st.config, env) THEN Err(st, "not_admin")
    ELSE Ok(st, <<>>)

resume_contract(st, env) ==
    IF ~enforce_admin(st.config, env) THEN Err(st, "not_admin")
    ELSE Ok([st EXCEPT !.config.is_stopped = FALSE], <<>>)

change_admin(st, env, address) ==
    IF ~enforce_admin(st.config, env) THEN Err(st, "not_admin")
    ELSE Ok([st EXCEPT !.config.admin = address], <<>>)

\* (mutant) the debt outlives the position
emergency_redeem_debt_kept(st, env) ==
    LET user == st.users[env.sender]
    IN  Ok([st EXCEPT !.users[env.sender] = [locked |-> 0, debt |-> user.debt]],
           IF user.locked > 0
           THEN <<transfer_msg(env.sender, user.locked * INC_TOKEN_SCALE, st.config.inc_token)>>
           ELSE <<>>)

emergency_redeem(st, env) ==
    LET user == st.users[env.sender]
    IN  Ok([st EXCEPT !.users[env.sender] = NoUser],
           IF user.locked > 0
           THEN <<transfer_msg(env.sender, user.locked * INC_TOKEN_SCALE, st.config.inc_token)>>
           ELSE <<>>)

\* (mutant) the pool is advanced before the sender is checked
update_deadline_advance_first(st, env, h) ==
    LET up == update_rewards(st.pool, env.height, st.config)
    IN  IF up.panic THEN Err(st, "panic")
        ELSE IF ~enforce_admin(st.config, env)
        THEN Err([st EXCEPT !.pool = up.pool], "not_admin")
        ELSE Ok([st EXCEPT !.pool = up.pool], <<>>)

\* (mutant) the pool is advanced against the new deadline
update_deadline_rebased(st, env, h) ==
    IF ~enforce_admin(st.config, env) THEN Err(st, "not_admin")
    ELSE LET up == update_rewards(st.pool, env.height, [st.config EXCEPT !.deadline = h])
         IN  IF up.panic THEN Err(st, "panic")
             ELSE Ok([st EXCEPT !.pool = up.pool], <<>>)

\* update_rewards stores the advanced pool; config.deadline is set on the
\* local copy of the config, which is never stored
update_deadline(st, env, h) ==
    IF ~enforce_admin(st.config, env) THEN Err(st, "not_admin")
    ELSE LET up == update_rewards(st.pool, env.height, st.config)
         IN  IF up.panic THEN Err(st, "panic")
             ELSE Ok([st EXCEPT !.pool = up.pool], <<>>)

\* ------------------------------------------------------------------ handle
StoppedAllowed == {"Redeem", "EmergencyRedeem", "ResumeContract"}

\* (mutant) a viewing key can still be set while stopped
stopped_dispatch_open(st, env, msg) ==
    CASE msg.type = "Redeem" -> redeem(st, env, msg.amount)
      [] msg.type = "EmergencyRedeem" -> emergency_redeem(st, env)
      [] msg.type = "ResumeContract" -> resume_contract(st, env)
      [] msg.type = "SetViewingKey" -> set_viewing_key(st, env, msg.key)
      [] OTHER -> Err(st, "stopped")

\* the match taken while config.is_stopped
stopped_dispatch(st, env, msg) ==
    CASE msg.type = "Redeem" -> redeem(st, env, msg.amount)
      [] msg.type = "EmergencyRedeem" -> emergency_redeem(st, env)
      [] msg.type = "ResumeContract" -> resume_contract(st, env)
      [] OTHER -> Err(st, "stopped")

\* the match taken otherwise
active_dispatch(st, env, msg) ==
    CASE msg.type = "Redeem" -> redeem(st, env, msg.amount)
      [] msg.type = "Receive" -> receive(st, env, msg.from, msg.amount, msg.msg)
      [] msg.type = "CreateViewingKey" -> create_viewing_key(st, env, msg.entropy)
      [] msg.type = "SetViewingKey" -> set_viewing_key(st, env, msg.key)
      [] msg.type = "UpdateIncentivizedToken" -> update_inc_token(st, env, msg.new_token)
      [] msg.type = "UpdateRewardToken" -> update_reward_token(st, env, msg.new_token)
      [] msg.type = "ClaimRewardPool" -> claim_reward_pool(st, env, msg.recipient)
      [] msg.type = "StopContract" -> stop_contract(st, env)
      [] msg.type = "ChangeAdmin" -> change_admin(st, env, msg.address)
      [] msg.type = "UpdateDeadline" -> update_deadline(st, env, msg.height)
      [] OTHER -> Err(st, "unavailable")

handle(st, env, msg) ==
    IF st.config.is_stopped THEN stopped_dispatch(st, env, msg)
    ELSE active_dispatch(st, env, msg)

\* ----------------------------------------------------------------- queries
\* A query reads the store and returns an answer; it has no store to write.
Answer(a) == [status |-> "ok", answer |-> a]

QueryPanic == [status |-> "panic", answer |-> <<>>]

QueryError == Answer(<<"QueryError">>)

\* the accumulator query_pending_rewards projects at height h (the height is
\* clamped to the deadline; the pool's last_reward_block is not)
projected_acc(pool, h, cfg) ==
    LET clamped == IF h > cfg.deadline THEN cfg.deadline ELSE h
        rewards == ((clamped - pool.last_reward_block) * pool.pending_rewards)
                       \div (cfg.deadline - pool.last_reward_block)
    IN  pool.acc_reward_per_share + (rewards * REWARD_SCALE) \div pool.inc_token_supply

\* panic: deadline - last_reward_block below zero or zero as the divisor, or
\* the share below the debt
query_pending_rewards(st, address, h) ==
    LET pool == st.pool
        user == st.users[address]
        projecting == h > pool.last_reward_block /\ pool.inc_token_supply # 0
    IN  IF projecting /\ st.config.deadline <= pool.last_reward_block
        THEN QueryPanic
        ELSE LET acc == IF projecting THEN projected_acc(pool, h, st.config)
                        ELSE pool.acc_reward_per_share
             IN  IF share_of(user.locked, acc) < user.debt
                 THEN QueryPanic
                 ELSE Answer(<<"QueryRewards", share_of(user.locked, acc) - user.debt>>)

query_deposit(st, address) ==
    Answer(<<"QueryDeposit", st.users[address].locked * INC_TOKEN_SCALE>>)

query_end_height(st) == Answer(<<"QueryEndHeight", st.config.deadline>>)

\* ViewingKey::check_viewing_key: the hash of the key is the stored hash
check_viewing_key(key, hashed) == to_hashed(key) = hashed

authenticated_answer(st, msg) ==
    CASE msg.type = "QueryRewards" -> query_pending_rewards(st, msg.address, msg.height)
      [] msg.type = "QueryDeposit" -> query_deposit(st, msg.address)

\* (mutant) a stored key opens the account to any key
authenticated_queries_unchecked(st, msg) ==
    IF st.vk[msg.address] = <<>> THEN QueryError
    ELSE authenticated_answer(st, msg)

\* <<>> in the viewing-key store is "no key stored"
authenticated_queries(st, msg) ==
    LET expected_key == st.vk[msg.address]
    IN  IF expected_key = <<>> THEN QueryError
        ELSE IF check_viewing_key(msg.key, expected_key)
        THEN authenticated_answer(st, msg)
        ELSE QueryError

\* keys a query may present: the one the model sets, the one it creates and
\* one nobody has
QueryKeys ==
    Keys \cup {new_viewing_key([sender |-> a], e) : a \in Users, e \in Entropies}
         \cup {<<"k0">>}

QueryMsgs ==
    {[type |-> "QueryRewards", address |-> a, key |-> k, height |-> h] :
        a \in Senders, k \in QueryKeys, h \in {1, MaxHeight}}
        \cup {[type |-> "QueryDeposit", address |-> a, key |-> k] :
                 a \in Senders, k \in QueryKeys}

\* ---------------------------------------------------------------- messages
ReceiveLockMsgs ==
    {[type |-> "Receive", from |-> f, amount |-> a, msg |-> [type |-> "LockTokens"]] :
        f \in Users, a \in LockAmounts}

ReceiveAddMsgs ==
    {[type |-> "Receive", from |-> f, amount |-> a, msg |-> [type |-> "AddToRewardPool"]] :
        f \in {Admin}, a \in RewardAmounts}

ReceiveOtherMsgs ==
    {[type |-> "Receive", from |-> f, amount |-> a, msg |-> [type |-> t]] :
        f \in {"alice"}, a \in {2}, t \in {"Receive", "EmergencyRedeem"}}

RedeemMsgs == {[type |-> "Redeem", amount |-> a] : a \in RedeemAmounts}

EmergencyRedeemMsgs == {[type |-> "EmergencyRedeem"]}

ViewingKeyMsgs ==
    {[type |-> "CreateViewingKey", entropy |-> e] : e \in Entropies}
        \cup {[type |-> "SetViewingKey", key |-> k] : k \in Keys}

UpdateTokenMsgs ==
    {[type |-> "UpdateIncentivizedToken", new_token |-> n] : n \in NewIncTokens}
        \cup {[type |-> "UpdateRewardToken", new_token |-> n] : n \in NewRewardTokens}

ClaimRewardPoolMsgs == {[type |-> "ClaimRewardPool", recipient |-> r] : r \in Recipients}

StopContractMsgs == {[type |-> "StopContract"]}

ResumeContractMsgs == {[type |-> "ResumeContract"]}

ChangeAdminMsgs == {[type |-> "ChangeAdmin", address |-> a] : a \in NewAdmins \cup {Admin}}

UpdateDeadlineMsgs == {[type |-> "UpdateDeadline", height |-> h] : h \in NewDeadlines}

\* variants of HandleMsg that handle() matches with its catch-all arm
DirectMsgs == {[type |-> t] : t \in {"LockTokens", "AddToRewardPool"}}

AllMsgs ==
    ReceiveLockMsgs \cup ReceiveAddMsgs \cup ReceiveOtherMsgs \cup RedeemMsgs
        \cup EmergencyRedeemMsgs \cup ViewingKeyMsgs \cup UpdateTokenMsgs
        \cup ClaimRewardPoolMsgs \cup StopContractMsgs \cup ResumeContractMsgs
        \cup ChangeAdminMsgs \cup UpdateDeadlineMsgs \cup DirectMsgs

\* ----------------------------------------------------------------- actions
EnvOf(sender, balance) == [sender |-> sender, height |-> height, balance |-> balance]

\* One transaction: the handler's store is committed (an Err or a panic
\* returns the store it was given)
Do(sender, msg, balance) ==
    LET r == handle(Store, EnvOf(sender, balance), msg)
    IN  /\ config' = r.st.config
        /\ reward_pool' = r.st.pool
        /\ users' = r.st.users
        /\ viewing_keys' = r.st.vk
        /\ height' = height
        /\ UNCHANGED <<received, paid>>

NewBlock ==
    /\ height < MaxHeight
    /\ height' = height + 1
    /\ UNCHANGED <<config, reward_pool, users, viewing_keys, received, paid>>

ReceiveLock ==
    \E s \in Notifiers, m \in ReceiveLockMsgs :
        /\ users[m.from].locked + m.amount \div INC_TOKEN_SCALE <= MaxLocked
        /\ reward_pool.inc_token_supply + m.amount \div INC_TOKEN_SCALE <= MaxSupply
        /\ Do(s, m, 0)

ReceiveAdd ==
    \E s \in Notifiers, m \in ReceiveAddMsgs :
        /\ reward_pool.pending_rewards + m.amount <= MaxPending
        /\ reward_pool.acc_reward_per_share
               + REWARD_SCALE * (reward_pool.pending_rewards + m.amount) <= MaxAcc
        /\ Do(s, m, 0)

ReceiveOther ==
    \E s \in Notifiers, m \in ReceiveOtherMsgs :
        /\ m.type \in {x.type : x \in ReceiveOtherMsgs}
        /\ Do(s, m, 0)

Redeem ==
    \E s \in Holders, m \in RedeemMsgs :
        /\ m.type \in {x.type : x \in RedeemMsgs}
        /\ Do(s, m, 0)

EmergencyRedeem ==
    \E s \in Holders, m \in EmergencyRedeemMsgs :
        /\ m.type \in {x.type : x \in EmergencyRedeemMsgs}
        /\ Do(s, m, 0)

ViewingKey ==
    \E s \in KeyHolders, m \in ViewingKeyMsgs :
        /\ m.type \in {x.type : x \in ViewingKeyMsgs}
        /\ Do(s, m, 0)

UpdateToken ==
    \E s \in Officers, m \in UpdateTokenMsgs :
        /\ m.type \in {x.type : x \in UpdateTokenMsgs}
        /\ Do(s, m, 0)

ClaimRewardPool ==
    \E s \in Officers, m \in ClaimRewardPoolMsgs, b \in Balances :
        /\ m.type \in {x.type : x \in ClaimRewardPoolMsgs}
        /\ Do(s, m, b)

StopContract ==
    \E s \in Officers, m \in StopContractMsgs :
        /\ m.type \in {x.type : x \in StopContractMsgs}
        /\ Do(s, m, 0)

ResumeContract ==
    \E s \in Officers, m \in ResumeContractMsgs :
        /\ m.type \in {x.type : x \in ResumeContractMsgs}
        /\ Do(s, m, 0)

ChangeAdmin ==
    \E s \in Officers, m \in ChangeAdminMsgs :
        /\ m.type \in {x.type : x \in ChangeAdminMsgs}
        /\ Do(s, m, 0)

UpdateDeadline ==
    \E s \in Officers, m \in UpdateDeadlineMsgs :
        /\ m.type \in {x.type : x \in UpdateDeadlineMsgs}
        /\ Do(s, m, 0)

Direct ==
    \E s \in Holders, m \in DirectMsgs :
        /\ m.type \in {x.type : x \in DirectMsgs}
        /\ Do(s, m, 0)

\* -------------------------------------------------------------------- init
Init ==
    /\ config = [admin |-> Admin, reward_token |-> ScrtToken, inc_token |-> EthToken,
                 pool_claim_height |-> InitClaimHeight, deadline |-> InitDeadline,
                 is_stopped |-> FALSE]
    /\ reward_pool = [pending_rewards |-> 0, inc_token_supply |-> 0,
                      last_reward_block |-> 0, acc_reward_per_share |-> 0]
    /\ users = [a \in Senders |-> NoUser]
    /\ viewing_keys = [a \in Senders |-> <<>>]
    /\ height = 1
    /\ received = 0
    /\ paid = 0

Next ==
    \/ NewBlock
    \/ ReceiveLock
    \/ ReceiveAdd
    \/ ReceiveOther
    \/ Redeem
    \/ EmergencyRedeem
    \/ ViewingKey
    \/ UpdateToken
    \/ ClaimRewardPool
    \/ StopContract
    \/ ResumeContract
    \/ ChangeAdmin
    \/ UpdateDeadline
    \/ Direct

Spec == Init /\ [][Next]_vars

\* Only Lock, Redeem and AddToRewardPool, at non-decreasing heights
NextLockRedeem ==
    \/ NewBlock
    \/ ReceiveLock
    \/ ReceiveAdd
    \/ Redeem

SpecLockRedeem == Init /\ [][NextLockRedeem]_vars

\* Positions and viewing keys of every account: Lock, Redeem and
\* AddToRewardPool at non-decreasing heights, and the viewing-key messages of
\* both accounts
ViewingKeyAny ==
    \E s \in Users, m \in ViewingKeyMsgs :
        /\ m.type \in {x.type : x \in ViewingKeyMsgs}
        /\ Do(s, m, 0)

NextKeys ==
    \/ NewBlock
    \/ ReceiveLock
    \/ ReceiveAdd
    \/ Redeem
    \/ ViewingKeyAny

SpecKeys == Init /\ [][NextKeys]_vars

\* Every message but AddToRewardPool: a contract nobody has funded
NextNoAdd ==
    \/ NewBlock
    \/ ReceiveLock
    \/ ReceiveOther
    \/ Redeem
    \/ EmergencyRedeem
    \/ ViewingKey
    \/ UpdateToken
    \/ ClaimRewardPool
    \/ StopContract
    \/ ResumeContract
    \/ ChangeAdmin
    \/ UpdateDeadline
    \/ Direct

SpecNoAdd == Init /\ [][NextNoAdd]_vars

\* Lock, Redeem and AddToRewardPool at non-decreasing heights, with the reward
\* token's ledger: what the contract took in and what its responses paid out
RECURSIVE amount_of(_, _)
amount_of(messages, token) ==
    IF messages = <<>> THEN 0
    ELSE (IF Head(messages).token = token.address THEN Head(messages).amount ELSE 0)
             + amount_of(Tail(messages), token)

Settled(sender, msg, taken) ==
    LET r == handle(Store, EnvOf(sender, 0), msg)
    IN  /\ config' = r.st.config
        /\ reward_pool' = r.st.pool
        /\ users' = r.st.users
        /\ viewing_keys' = r.st.vk
        /\ height' = height
        /\ received' = received + (IF r.status = "ok" THEN taken ELSE 0)
        /\ paid' = paid + amount_of(r.messages, config.reward_token)

LedgerLock ==
    \E s \in Notifiers, m \in ReceiveLockMsgs :
        /\ users[m.from].locked + m.amount \div INC_TOKEN_SCALE <= MaxLocked
        /\ reward_pool.inc_token_supply + m.amount \div INC_TOKEN_SCALE <= MaxSupply
        /\ Settled(s, m, 0)

LedgerAdd ==
    \E s \in Notifiers, m \in ReceiveAddMsgs :
        /\ reward_pool.pending_rewards + m.amount <= MaxPending
        /\ reward_pool.acc_reward_per_share
               + REWARD_SCALE * (reward_pool.pending_rewards + m.amount) <= MaxAcc
        /\ received + m.amount <= MaxReceived
        /\ Settled(s, m, m.amount)

LedgerRedeem ==
    \E s \in Holders, m \in RedeemMsgs :
        /\ m.type \in {x.type : x \in RedeemMsgs}
        /\ Settled(s, m, 0)

NextLedger ==
    \/ NewBlock
    \/ LedgerLock
    \/ LedgerAdd
    \/ LedgerRedeem

SpecLedger == Init /\ [][NextLedger]_vars

\* update_rewards alone, on any pool and deadline, at any height
InitAdvance ==
    /\ config \in [admin : {Admin}, reward_token : {ScrtToken}, inc_token : {EthToken},
                   pool_claim_height : {InitClaimHeight}, deadline : 0..MaxHeight,
                   is_stopped : {FALSE}]
    /\ reward_pool \in [pending_rewards : 0..MaxPending, inc_token_supply : 0..MaxSupply,
                        last_reward_block : 0..MaxHeight, acc_reward_per_share : 0..MaxAcc]
    /\ users = [a \in Senders |-> NoUser]
    /\ viewing_keys = [a \in Senders |-> <<>>]
    /\ height = 0
    /\ received = 0
    /\ paid = 0

Advance ==
    \E h \in 1..MaxHeight :
        LET up == update_rewards(reward_pool, h, config)
        IN  /\ ~up.panic
            /\ reward_pool' = up.pool
            /\ height' = h
            /\ UNCHANGED <<config, users, viewing_keys, received, paid>>

SpecAdvance == InitAdvance /\ [][Advance]_vars

\* ------------------------------------------------------------------ claims
RECURSIVE SumLocked(_, _)
SumLocked(u, S) ==
    IF S = {} THEN 0
    ELSE LET a == CHOOSE x \in S : TRUE
         IN  u[a].locked + SumLocked(u, S \ {a})

Heights == 0..MaxHeight

\* C1: under Lock, Redeem and AddToRewardPool alone, inc_token_supply is the
\* sum of the locked amounts of all accounts after every operation.
C1_Conservation == reward_pool.inc_token_supply = SumLocked(users, Senders)

\* two accounts hold a position, one of them a partly redeemed one, and
\* rewards have vested
C1_Witness ==
    /\ users["alice"].locked = 1
    /\ users["alice"].debt > 0
    /\ users["bob"].locked > 0
    /\ reward_pool.inc_token_supply = 1 + users["bob"].locked

\* C2: in every reachable state, whatever the operations (EmergencyRedeem and
\* operations of the stopped contract included), the sum of the locked
\* amounts is inc_token_supply.
C2_SupplyIsSumOfLocked == SumLocked(users, Senders) = reward_pool.inc_token_supply

\* C3: at a height <= deadline every account's
\* floor(locked * acc_reward_per_share / REWARD_SCALE) is at least its debt.
C3_NonNegativeEntitlement ==
    height <= config.deadline =>
        \A a \in Senders :
            (users[a].locked * reward_pool.acc_reward_per_share) \div REWARD_SCALE
                >= users[a].debt

\* before the deadline an account is owed a reward it has not yet been paid
C3_Witness ==
    /\ height <= config.deadline
    /\ \E a \in Senders :
          /\ users[a].debt > 0
          /\ (users[a].locked * reward_pool.acc_reward_per_share) \div REWARD_SCALE
                > users[a].debt

\* C4: no step lowers acc_reward_per_share, at any height.
C4_AccMonotone ==
    [][reward_pool'.acc_reward_per_share >= reward_pool.acc_reward_per_share]_vars

\* the accumulator has grown and the pool was advanced past the deadline
C4_Witness ==
    /\ reward_pool.acc_reward_per_share > 0
    /\ reward_pool.last_reward_block > config.deadline

\* C5: with supply > 0 and last_reward_block < deadline, update_rewards at
\* height = deadline leaves pending_rewards = 0.
C5_FullVestingAtDeadline ==
    (reward_pool.inc_token_supply > 0 /\ reward_pool.last_reward_block < config.deadline) =>
        LET up == update_rewards(reward_pool, config.deadline, config)
        IN  ~up.panic /\ up.pool.pending_rewards = 0

\* the pool was advanced at the deadline, rewards have vested and nothing is
\* pending
C5_Witness ==
    /\ height = config.deadline
    /\ reward_pool.last_reward_block = config.deadline
    /\ reward_pool.inc_token_supply > 0
    /\ reward_pool.pending_rewards = 0
    /\ reward_pool.acc_reward_per_share >= REWARD_SCALE

C7_AdvanceIdempotent ==
    \A h \in Heights :
        LET once == update_rewards(reward_pool, h, config)
        IN  ~once.panic => update_rewards(once.pool, h, config) = once

\* update_rewards has run at the current height before the deadline and left
\* rewards both vested and pending
C7_Witness ==
    /\ height >= 1
    /\ reward_pool.last_reward_block = height
    /\ height < config.deadline
    /\ reward_pool.inc_token_supply > 0
    /\ reward_pool.pending_rewards > 0
    /\ reward_pool.acc_reward_per_share > MaxAcc

\* C8: while is_stopped, every message other than Redeem, EmergencyRedeem and
\* ResumeContract fails with the contract-stopped error for every sender and
\* leaves the whole store unchanged.
C8_StoppedRejects ==
    config.is_stopped =>
        \A s \in Senders, m \in AllMsgs, b \in Balances :
            m.type \notin StoppedAllowed =>
                handle(Store, EnvOf(s, b), m) = Err(Store, "stopped")

\* the contract is stopped with tokens locked, and a Lock notification from
\* the locked-asset contract as well as the admin's own StopContract are
\* turned away as stopped
C8_Witness ==
    /\ config.is_stopped
    /\ reward_pool.inc_token_supply > 0
    /\ \E m \in ReceiveLockMsgs :
          handle(Store, EnvOf(config.inc_token.address, 0), m).status = "stopped"
    /\ \E m \in StopContractMsgs :
          handle(Store, EnvOf(config.admin, 0), m).status = "stopped"

\* C9: while is_stopped, Redeem of an amount within the caller's locked
\* balance, EmergencyRedeem by any account and ResumeContract by the admin
\* all succeed.
C9_StoppedAllowListSucceeds ==
    config.is_stopped =>
        /\ \A s \in Senders, m \in RedeemMsgs :
              redeem_amount(users[s], m.amount) <= users[s].locked =>
                  handle(Store, EnvOf(s, 0), m).status = "ok"
        /\ \A s \in Senders, m \in EmergencyRedeemMsgs :
              handle(Store, EnvOf(s, 0), m).status = "ok"
        /\ \A m \in ResumeContractMsgs :
              handle(Store, EnvOf(config.admin, 0), m).status = "ok"

\* C10: an EmergencyRedeem by an account with locked > 0 succeeds, whether
\* the contract is active or stopped.
C10_EmergencyRedeemAlwaysCallable ==
    \A s \in Senders, m \in EmergencyRedeemMsgs :
        users[s].locked > 0 => handle(Store, EnvOf(s, 0), m).status = "ok"

\* the admin-only messages of the active contract
AdminMsgs ==
    UpdateTokenMsgs \cup UpdateDeadlineMsgs \cup ClaimRewardPoolMsgs \cup StopContractMsgs
        \cup ChangeAdminMsgs

\* C11: UpdateIncentivizedToken, UpdateRewardToken, UpdateDeadline,
\* ClaimRewardPool, StopContract and ChangeAdmin on the active contract, and
\* ResumeContract on the stopped one, sent by anyone but Config.admin, fail,
\* emit no message and leave the whole store (the pool included) unchanged.
C11_AdminOnly ==
    \A s \in Senders \ {config.admin}, b \in Balances :
        /\ ~config.is_stopped =>
              \A m \in AdminMsgs : handle(Store, EnvOf(s, b), m) = Err(Store, "not_admin")
        /\ config.is_stopped =>
              \A m \in ResumeContractMsgs :
                  handle(Store, EnvOf(s, b), m) = Err(Store, "not_admin")

\* the admin has changed, the pool is behind the chain with rewards to vest,
\* and the former admin's UpdateDeadline is turned away
C11_Witness ==
    /\ ~config.is_stopped
    /\ config.admin # Admin
    /\ update_rewards(reward_pool, height, config).pool.acc_reward_per_share
           > reward_pool.acc_reward_per_share
    /\ \E m \in UpdateDeadlineMsgs :
          handle(Store, EnvOf(Admin, 0), m).status = "not_admin"

\* C12: is_stopped starts false; a step changes it only as the admin's
\* successful StopContract of the active contract or the admin's successful
\* ResumeContract of the stopped one does; no other message of any sender
\* changes it; and the admin's ResumeContract of the stopped contract always
\* succeeds and makes it active.
C12_PauseStateMachine ==
    /\ ~config.is_stopped
    /\ [][config'.is_stopped # config.is_stopped =>
            \E m \in StopContractMsgs \cup ResumeContractMsgs :
                LET r == handle(Store, EnvOf(config.admin, 0), m)
                IN  /\ r.status = "ok"
                    /\ config' = r.st.config
                    /\ (m.type = "StopContract") = ~config.is_stopped]_vars
    /\ [](\A s \in Senders, m \in AllMsgs, b \in Balances :
            LET r == handle(Store, EnvOf(s, b), m)
            IN  r.st.config.is_stopped # config.is_stopped =>
                    /\ r.status = "ok"
                    /\ s = config.admin
                    /\ m.type = IF config.is_stopped THEN "ResumeContract"
                                ELSE "StopContract")
    /\ [](config.is_stopped =>
            \A m \in ResumeContractMsgs :
                LET r == handle(Store, EnvOf(config.admin, 0), m)
                IN  r.status = "ok" /\ ~r.st.config.is_stopped)

\* the contract was stopped under an admin other than the first one, with
\* tokens locked and the chain past the deadline
C12_Witness ==
    /\ config.is_stopped
    /\ config.admin # Admin
    /\ reward_pool.inc_token_supply > 0
    /\ height > config.deadline

\* C13: a successful UpdateDeadline(height) by the admin stores height as
\* Config.deadline, which QueryEndHeight then answers.
C13_UpdateDeadlineTakesEffect ==
    \A m \in UpdateDeadlineMsgs :
        LET r == handle(Store, EnvOf(config.admin, 0), m)
        IN  r.status = "ok" =>
                /\ r.st.config.deadline = m.height
                /\ query_end_height(r.st) = Answer(<<"QueryEndHeight", m.height>>)

\* C14: a successful UpdateDeadline by the admin at height h stores the pool
\* that update_rewards gives at h under the deadline configured before the
\* call, and changes no UserInfo.
C14_UpdateDeadlineSettlesFirst ==
    \A m \in UpdateDeadlineMsgs :
        LET r == handle(Store, EnvOf(config.admin, 0), m)
        IN  r.status = "ok" =>
                /\ r.st.pool = update_rewards(reward_pool, height, config).pool
                /\ r.st.users = users

\* the admin's UpdateDeadline succeeds and vests rewards for a locked
\* position
C14_Witness ==
    /\ \E m \in UpdateDeadlineMsgs :
          LET r == handle(Store, EnvOf(config.admin, 0), m)
          IN  /\ r.status = "ok"
              /\ r.st.pool.acc_reward_per_share > reward_pool.acc_reward_per_share
              /\ r.st.pool.pending_rewards > 0
    /\ \E a \in Users : users[a].locked > 0

\* C15: a successful EmergencyRedeem by X stores locked = debt = 0 for X and
\* changes no other UserInfo; its only message is the transfer of
\* locked * INC_TOKEN_SCALE of the locked asset to X (none when locked = 0),
\* never a reward transfer; X's entitlement afterwards is 0.
C15_EmergencyRedeemForfeits ==
    \A s \in Senders, m \in EmergencyRedeemMsgs :
        LET r == handle(Store, EnvOf(s, 0), m)
            after == r.st.users[s]
        IN  r.status = "ok" =>
                /\ r.st.users = [users EXCEPT ![s] = NoUser]
                /\ r.messages =
                       IF users[s].locked > 0
                       THEN <<transfer_msg(s, users[s].locked * INC_TOKEN_SCALE,
                                           config.inc_token)>>
                       ELSE <<>>
                /\ \A h \in Heights :
                       LET up == update_rewards(r.st.pool, h, r.st.config)
                       IN  share_of(after.locked, up.pool.acc_reward_per_share) - after.debt = 0

\* the contract is stopped and an account with rewards it has not been paid
\* (and a debt from an earlier settlement) can redeem in emergency
C15_Witness ==
    /\ config.is_stopped
    /\ \E s \in Users, m \in EmergencyRedeemMsgs :
          /\ users[s].locked > 0
          /\ users[s].debt > 0
          /\ share_of(users[s].locked, reward_pool.acc_reward_per_share) > users[s].debt
          /\ handle(Store, EnvOf(s, 0), m).status = "ok"

\* C16: Redeem of an amount whose scaled value exceeds the sender's locked
\* balance fails with the insufficient-funds error, emits nothing and leaves
\* the whole store (the sender's UserInfo and the pool included) unchanged.
C16_RedeemInsufficientFunds ==
    \A s \in Senders, m \in RedeemMsgs :
        (m.amount # <<>> /\ m.amount[1] \div INC_TOKEN_SCALE > users[s].locked) =>
            handle(Store, EnvOf(s, 0), m) = Err(Store, "insufficient_funds")

\* an account with a position asks for more than it has while the pool is
\* behind the chain with rewards to vest
C16_Witness ==
    /\ update_rewards(reward_pool, height, config).pool.acc_reward_per_share
           > reward_pool.acc_reward_per_share
    /\ \E s \in Users, m \in RedeemMsgs :
          /\ users[s].locked > 0
          /\ handle(Store, EnvOf(s, 0), m).status = "insufficient_funds"

\* tokens the admin may configure
Tokens == {EthToken, ScrtToken}

\* one notification of each kind
LockProbe == [type |-> "Receive", from |-> "alice", amount |-> 2, msg |-> [type |-> "LockTokens"]]

AddProbe == [type |-> "Receive", from |-> Admin, amount |-> 1, msg |-> [type |-> "AddToRewardPool"]]

\* the origin check of Lock and AddToRewardPool notifications in the current
\* store, and of one notification of each kind in the store right after an
\* admin's token update
OriginChecked ==
    /\ \A s \in Senders, l \in ReceiveLockMsgs :
          IF s # config.inc_token.address
          THEN handle(Store, EnvOf(s, 0), l) = Err(Store, "unsupported_token")
          ELSE handle(Store, EnvOf(s, 0), l).status # "unsupported_token"
    /\ \A s \in Senders, a \in ReceiveAddMsgs :
          IF s # config.reward_token.address
          THEN handle(Store, EnvOf(s, 0), a) = Err(Store, "unsupported_token")
          ELSE handle(Store, EnvOf(s, 0), a).status # "unsupported_token"
    /\ \A n \in Tokens :
          LET r == handle(Store, EnvOf(config.admin, 0),
                          [type |-> "UpdateIncentivizedToken", new_token |-> n])
          IN  /\ r.status = "ok"
              /\ \A s \in Senders :
                    IF s # n.address
                    THEN handle(r.st, EnvOf(s, 0), LockProbe) = Err(r.st, "unsupported_token")
                    ELSE handle(r.st, EnvOf(s, 0), LockProbe).status # "unsupported_token"
    /\ \A n \in Tokens :
          LET r == handle(Store, EnvOf(config.admin, 0),
                          [type |-> "UpdateRewardToken", new_token |-> n])
          IN  /\ r.status = "ok"
              /\ \A s \in Senders :
                    IF s # n.address
                    THEN handle(r.st, EnvOf(s, 0), AddProbe) = Err(r.st, "unsupported_token")
                    ELSE handle(r.st, EnvOf(s, 0), AddProbe).status # "unsupported_token"

\* C17 (as claimed): in every state a Lock notification not sent by
\* inc_token.address and an AddToRewardPool notification not sent by
\* reward_token.address fail with the unsupported-token error and leave the
\* store unchanged, and after UpdateIncentivizedToken / UpdateRewardToken the
\* check is against the new address.
C17_OriginCheckAnyState == OriginChecked

\* C17 (amended): the same on the active contract; one sent by the
\* configured address does not fail that way.
C17_OriginCheck == ~config.is_stopped => OriginChecked

\* the locked asset was replaced while a position is open: the former
\* contract's Lock notification is turned away, the new one's is taken
C17_Witness ==
    /\ ~config.is_stopped
    /\ config.inc_token # EthToken
    /\ reward_pool.inc_token_supply > 0
    /\ \E l \in ReceiveLockMsgs :
          /\ handle(Store, EnvOf(EthToken.address, 0), l).status = "unsupported_token"
          /\ handle(Store, EnvOf(config.inc_token.address, 0), l).status = "ok"

\* balances the reward token may report for the contract
ObservedBalances == Balances \cup {0}

\* what the admin's ClaimRewardPool returns in the current store
PoolClaimed ==
    \A m \in ClaimRewardPoolMsgs, b \in ObservedBalances :
        handle(Store, EnvOf(config.admin, b), m) =
            IF height < config.pool_claim_height
            THEN Err(Store, "claim_too_early")
            ELSE Ok(Store,
                    <<transfer_msg(IF m.recipient = <<>> THEN config.admin
                                   ELSE m.recipient[1],
                                   b, config.reward_token)>>)

\* C18 (as claimed): in every state the admin's ClaimRewardPool before
\* pool_claim_height fails with no message, and from pool_claim_height on it
\* emits exactly one transfer of the whole observed reward-token balance to
\* the recipient (the admin when none is given); either way the store is
\* unchanged.
C18_ClaimRewardPoolAnyState == PoolClaimed

\* C18 (amended): the same on the active contract.
C18_ClaimRewardPool == ~config.is_stopped => PoolClaimed

\* the active contract is past pool_claim_height with pending rewards and a
\* locked position
C18_Witness ==
    /\ ~config.is_stopped
    /\ height >= config.pool_claim_height
    /\ reward_pool.pending_rewards > 0
    /\ reward_pool.inc_token_supply > 0
    /\ \A m \in ClaimRewardPoolMsgs :
          handle(Store, EnvOf(config.admin, 7), m).status = "ok"

\* C19: in every reachable state, for every account and every height,
\* QueryRewards returns floor(locked * acc' / REWARD_SCALE) - debt, acc' being
\* the accumulator of update_rewards on the stored pool at
\* min(height, deadline), and does not fail.
C19_QueryRewardsProjection ==
    \A a \in Senders, h \in Heights :
        LET up == update_rewards(reward_pool,
                                 IF h > config.deadline THEN config.deadline ELSE h, config)
        IN  /\ ~up.panic
            /\ query_pending_rewards(Store, a, h) =
                   Answer(<<"QueryRewards",
                            share_of(users[a].locked, up.pool.acc_reward_per_share)
                                - users[a].debt>>)

\* C20: QueryRewards and QueryDeposit give an account's data only when the
\* key presented hashes to the key stored for that account, and no message
\* of another sender writes that stored key; with no key stored and with a
\* key that does not match, the answer is the one QueryError, whatever the
\* account holds.
C20_AuthenticatedQueryGate ==
    /\ \A q \in QueryMsgs :
          authenticated_queries(Store, q) =
              IF viewing_keys[q.address] # <<>>
                     /\ viewing_keys[q.address] = to_hashed(q.key)
              THEN authenticated_answer(Store, q)
              ELSE QueryError
    /\ \A s \in Senders, m \in AllMsgs :
          LET vk == handle(Store, EnvOf(s, 0), m).st.vk
          IN  \A a \in Senders \ {s} : vk[a] = viewing_keys[a]

\* alice and bob hold positions, alice has set a key and bob has created
\* one: alice's key opens her deposit; a key nobody has, bob's key and alice's
\* key on bob's account get the one error
C20_Witness ==
    /\ users["alice"].locked > 0
    /\ users["bob"].locked > 0
    /\ viewing_keys["alice"] = to_hashed(<<"k1">>)
    /\ viewing_keys["bob"] = to_hashed(new_viewing_key([sender |-> "bob"], "e1"))
    /\ authenticated_queries(Store, [type |-> "QueryDeposit", address |-> "alice",
                                     key |-> new_viewing_key([sender |-> "bob"], "e1")])
           = QueryError
    /\ authenticated_queries(Store, [type |-> "QueryDeposit", address |-> "alice",
                                     key |-> <<"k1">>])
           = Answer(<<"QueryDeposit", users["alice"].locked * INC_TOKEN_SCALE>>)
    /\ authenticated_queries(Store, [type |-> "QueryDeposit", address |-> "alice",
                                     key |-> <<"k0">>]) = QueryError
    /\ authenticated_queries(Store, [type |-> "QueryDeposit", address |-> "bob",
                                     key |-> <<"k1">>]) = QueryError

\* Receive notifications whose embedded message is not LockTokens or
\* AddToRewardPool
NestedMsgs ==
    {[type |-> "Receive", from |-> "alice", amount |-> a, msg |-> [type |-> t]] :
        a \in {1, 5}, t \in {"Receive", "Redeem", "EmergencyRedeem"}}

\* C21: a Receive whose embedded message is itself a Receive fails for every
\* sender and amount with the store unchanged and no message (with the
\* recursive-call error on the active contract), and so does every embedded
\* message other than LockTokens and AddToRewardPool.
C21_ReceiveDispatchGuard ==
    \A s \in Senders, m \in NestedMsgs :
        LET r == handle(Store, EnvOf(s, 0), m)
        IN  /\ r.status # "ok"
            /\ r.st = Store
            /\ r.messages = <<>>
            /\ ~config.is_stopped =>
                  r.status = IF m.msg.type = "Receive" THEN "recursive_receive"
                             ELSE "illegal_receive"

\* on the active contract with a position open, the locked-asset contract's
\* LockTokens notification is taken and its nested Receive is not
C21_Witness ==
    /\ ~config.is_stopped
    /\ reward_pool.inc_token_supply > 0
    /\ handle(Store, EnvOf(config.inc_token.address, 0), LockProbe).status = "ok"
    /\ \E m \in NestedMsgs :
          handle(Store, EnvOf(config.inc_token.address, 0), m).status = "recursive_receive"

\* C22: for a pool with inc_token_supply > 0, pending_rewards > 0 and
\* last_reward_block <= deadline, update_rewards at any height above
\* last_reward_block (above the deadline too) vests
\* floor((min(height, deadline) - last_reward_block) * pending_rewards
\*       / (deadline - last_reward_block)):
\* it adds floor(vested * REWARD_SCALE / inc_token_supply) to
\* acc_reward_per_share, takes vested from pending_rewards and sets
\* last_reward_block to the height.
C22_VestingFormula ==
    \A h \in Heights :
        (/\ reward_pool.inc_token_supply > 0
         /\ reward_pool.pending_rewards > 0
         /\ reward_pool.last_reward_block <= config.deadline
         /\ h > reward_pool.last_reward_block
         /\ h >= height) =>
            LET up == update_rewards(reward_pool, h, config)
                clamped == IF h > config.deadline THEN config.deadline ELSE h
            IN  /\ ~up.panic
                /\ config.deadline > reward_pool.last_reward_block =>
                      LET vested ==
                              ((clamped - reward_pool.last_reward_block)
                                   * reward_pool.pending_rewards)
                                  \div (config.deadline - reward_pool.last_reward_block)
                      IN  up.pool =
                              [reward_pool EXCEPT
                                  !.acc_reward_per_share =
                                      @ + (vested * REWARD_SCALE)
                                              \div reward_pool.inc_token_supply,
                                  !.pending_rewards = @ - vested,
                                  !.last_reward_block = h]

\* C23: on a pool with inc_token_supply = 0 or pending_rewards = 0 and
\* last_reward_block <= deadline, update_rewards at a height above
\* last_reward_block only sets last_reward_block to the height (checked for
\* the stored pool with every pending_rewards, accumulator and deadline put in
\* its place); and while no AddToRewardPool has succeeded the accumulator is 0,
\* stays 0 at every height, and every account's entitlement is 0.
C23_NothingAccruesIdle ==
    /\ \A p \in 0..MaxPending, acc \in 0..MaxAcc, d \in Heights, h \in Heights :
          LET pool == [reward_pool EXCEPT !.pending_rewards = p,
                                          !.acc_reward_per_share = acc]
              cfg == [config EXCEPT !.deadline = d]
          IN  (/\ h > pool.last_reward_block
               /\ pool.last_reward_block <= d
               /\ (pool.inc_token_supply = 0 \/ p = 0)) =>
                  update_rewards(pool, h, cfg) =
                      [panic |-> FALSE, pool |-> [pool EXCEPT !.last_reward_block = h]]
    /\ reward_pool.acc_reward_per_share = 0
    /\ \A h \in Heights :
          LET up == update_rewards(reward_pool, h, config)
          IN  ~up.panic /\ up.pool.acc_reward_per_share = 0
    /\ \A a \in Senders :
          share_of(users[a].locked, reward_pool.acc_reward_per_share) - users[a].debt = 0

\* two accounts hold positions in the unfunded contract and the pool has
\* been advanced past the deadline
C23_Witness ==
    /\ users["alice"].locked > 0
    /\ users["bob"].locked > 0
    /\ reward_pool.last_reward_block = height
    /\ height > config.deadline

\* Lock notifications for account x, and the settlements x can make
LocksOf(x) == {l \in ReceiveLockMsgs : l.from = x}

\* the response to a settlement of account x: a Lock for x sent by the
\* locked-asset contract, or a Redeem sent by x
Settle(st, env, x, m) ==
    handle(st, [env EXCEPT !.sender = IF m.type = "Redeem" THEN x
                                       ELSE st.config.inc_token.address], m)

\* C24: right after a successful Lock or Redeem of account X at height h, X's
\* debt is floor(locked * acc_reward_per_share / REWARD_SCALE) for the pool
\* advanced to h (X's entitlement is 0); a first Lock pays X nothing; and a
\* second Lock or Redeem of X at the same height pays no reward.
C24_SettlementLeavesNothing ==
    \A x \in Users : \A m \in LocksOf(x) \cup RedeemMsgs :
        LET r == Settle(Store, EnvOf(x, 0), x, m)
            after == r.st.users[x]
        IN  r.status = "ok" =>
                /\ r.st.pool.acc_reward_per_share =
                       update_rewards(reward_pool, height, config).pool.acc_reward_per_share
                /\ after.debt = share_of(after.locked, r.st.pool.acc_reward_per_share)
                /\ (m.type = "Receive" /\ users[x].locked = 0) => r.messages = <<>>
                /\ \A m2 \in LocksOf(x) \cup RedeemMsgs :
                       LET r2 == Settle(r.st, EnvOf(x, 0), x, m2)
                       IN  r2.status = "ok" =>
                               Len(r2.messages) = IF m2.type = "Redeem" THEN 1 ELSE 0

\* alice has earned rewards that are vested and bob, who has no position,
\* can lock
C24_Witness ==
    /\ users["alice"].locked > 0
    /\ users["bob"].locked = 0
    /\ share_of(users["alice"].locked,
                update_rewards(reward_pool, height, config).pool.acc_reward_per_share)
           > users["alice"].debt
    /\ \E m \in LocksOf("bob") : Settle(Store, EnvOf("bob", 0), "bob", m).status = "ok"

\* C25: a successful AddToRewardPool(amount) at height h stores the pool
\* update_rewards gives at h for the pending_rewards held before the call,
\* with pending_rewards increased by amount; it emits nothing and changes no
\* UserInfo.
C25_AddIsNotRetroactive ==
    \A m \in ReceiveAddMsgs :
        LET r == handle(Store, EnvOf(config.reward_token.address, 0), m)
            up == update_rewards(reward_pool, height, config)
        IN  r.status = "ok" =>
                /\ ~up.panic
                /\ r.st.pool = [up.pool EXCEPT !.pending_rewards = @ + m.amount]
                /\ r.st.users = users
                /\ r.messages = <<>>

\* rewards are pending for a locked position, the pool is behind the chain
\* inside the window, and a top-up is taken
C25_Witness ==
    /\ reward_pool.pending_rewards > 0
    /\ reward_pool.inc_token_supply > 0
    /\ height <= config.deadline
    /\ update_rewards(reward_pool, height, config).pool.acc_reward_per_share
           > reward_pool.acc_reward_per_share
    /\ \E m \in ReceiveAddMsgs :
          handle(Store, EnvOf(config.reward_token.address, 0), m).status = "ok"

\* C26: a successful Redeem(amount) by account X, with a the scaled amount
\* (X's full locked balance when amount is omitted), has a <= locked, emits
\* one reward transfer of X's entitlement iff that entitlement is positive,
\* followed by one transfer of a * INC_TOKEN_SCALE of the locked asset to X,
\* decreases X's locked and inc_token_supply by exactly a, and changes no
\* other account's UserInfo.
C26_RedeemEffect ==
    \A x \in Users : \A m \in RedeemMsgs :
        LET r == handle(Store, EnvOf(x, 0), m)
            a == IF m.amount = <<>> THEN users[x].locked
                 ELSE m.amount[1] \div INC_TOKEN_SCALE
            acc == update_rewards(reward_pool, height, config).pool.acc_reward_per_share
            owed == (users[x].locked * acc) \div REWARD_SCALE - users[x].debt
            reward == [to |-> x, amount |-> owed, token |-> config.reward_token.address,
                       hash |-> config.reward_token.contract_hash]
            principal == [to |-> x, amount |-> a * INC_TOKEN_SCALE,
                          token |-> config.inc_token.address,
                          hash |-> config.inc_token.contract_hash]
        IN  r.status = "ok" =>
                /\ a <= users[x].locked
                /\ r.messages = IF owed > 0 THEN <<reward, principal>> ELSE <<principal>>
                /\ r.st.users[x].locked = users[x].locked - a
                /\ r.st.pool.inc_token_supply = reward_pool.inc_token_supply - a
                /\ m.amount = <<>> => r.st.users[x].locked = 0
                /\ \A y \in DOMAIN users \ {x} : r.st.users[y] = users[y]

\* an account that is owed rewards redeems part of its position while the
\* other account holds one too
C26_Witness ==
    \E x \in Users : \E m \in RedeemMsgs :
        LET r == handle(Store, EnvOf(x, 0), m)
        IN  /\ r.status = "ok"
            /\ Len(r.messages) = 2
            /\ r.st.users[x].locked > 0
            /\ r.st.users[x].locked < users[x].locked
            /\ \E y \in Users \ {x} : users[y].locked > 0

\* C27: a successful Lock of raw amount m for account X emits one reward
\* transfer of X's entitlement iff X had locked > 0 and a positive
\* entitlement, increases X's locked and inc_token_supply by exactly
\* m \div INC_TOKEN_SCALE, and changes no other account's UserInfo.
C27_LockEffect ==
    \A m \in ReceiveLockMsgs :
        LET r == handle(Store, EnvOf(config.inc_token.address, 0), m)
            x == m.from
            a == m.amount \div INC_TOKEN_SCALE
            acc == update_rewards(reward_pool, height, config).pool.acc_reward_per_share
            owed == (users[x].locked * acc) \div REWARD_SCALE - users[x].debt
            reward == [to |-> x, amount |-> owed, token |-> config.reward_token.address,
                       hash |-> config.reward_token.contract_hash]
        IN  r.status = "ok" =>
                /\ r.messages = IF users[x].locked > 0 /\ owed > 0 THEN <<reward>> ELSE <<>>
                /\ r.st.users[x].locked = users[x].locked + a
                /\ r.st.pool.inc_token_supply = reward_pool.inc_token_supply + a
                /\ \A y \in DOMAIN users \ {x} : r.st.users[y] = users[y]

\* an account that is owed rewards locks more while the other account holds
\* a position too
C27_Witness ==
    \E m \in ReceiveLockMsgs :
        LET r == handle(Store, EnvOf(config.inc_token.address, 0), m)
        IN  /\ r.status = "ok"
            /\ Len(r.messages) = 1
            /\ r.st.users[m.from].locked > users[m.from].locked
            /\ \E y \in Users \ {m.from} : users[y].locked > 0

\* C28: with no ClaimRewardPool, the reward amount paid out by the responses
\* of Lock and Redeem plus the pending_rewards never exceeds the amount taken
\* in by successful AddToRewardPool calls.
C28_NoFabrication == paid + reward_pool.pending_rewards <= received

\* C29: in every reachable state update_rewards completes, without dividing
\* by zero and without subtracting below zero, at every height from the
\* current one on.
C29_AdvanceIsTotal ==
    \A h \in Heights : h >= height => ~update_rewards(reward_pool, h, config).panic

\* C30: in every reachable state an account with locked > 0 has a Redeem or
\* an EmergencyRedeem that succeeds and transfers locked * INC_TOKEN_SCALE of
\* the locked asset to it.
C30_PrincipalRecoverable ==
    \A x \in Users :
        users[x].locked > 0 =>
            \E m \in RedeemMsgs \cup EmergencyRedeemMsgs :
                LET r == handle(Store, EnvOf(x, 0), m)
                IN  /\ r.status = "ok"
                    /\ \E i \in 1..Len(r.messages) :
                          r.messages[i] = transfer_msg(x, users[x].locked * INC_TOKEN_SCALE,
                                                       config.inc_token)

====
